---- MODULE Spec2Model ----
(***************************************************************************)
(* The lint rule no-window-prefix (src/rules/no_window_prefix.rs).         *)
(*                                                                         *)
(* A source unit is a small JavaScript program: a sequence of statements   *)
(* over expressions.  The traversal visits the member expressions of a     *)
(* unit in document order and calls NoWindowPrefixHandler::member_expr on  *)
(* each; the handler consults the scope table, extract_symbol and the      *)
(* lazily built PROPERTY_DENY_LIST and may add one diagnostic.  Several    *)
(* units may be linted in parallel; they share only the deny-list cell.    *)
(***************************************************************************)
EXTENDS Integers, Sequences, FiniteSets, TLC

VARIABLES
  units,        \* units[t]: the program traversal t lints
  unit_nodes,   \* unit_nodes[t]: its member expressions, in document order
  unit_scope,   \* unit_scope[t]: the scope table of its Context
  pos,          \* pos[t]: index of the next member expression to visit
  pc,           \* pc[t]: where traversal t is inside the handler
  prop_symbol,  \* prop_symbol[t]: the handler's local `prop_symbol`
  deny,         \* deny[t]: the set the deref of PROPERTY_DENY_LIST gave t
  diagnostics,  \* diagnostics[t]: the diagnostics of t's Context, in order
  lazy,         \* the process-wide Lazy cell behind PROPERTY_DENY_LIST
  init_count    \* how many times the Lazy's closure has run

vars ==
  <<units, unit_nodes, unit_scope, pos, pc, prop_symbol, deny, diagnostics,
    lazy, init_count>>

(***************************************************************************)
(* Bounds of the model.                                                    *)
(***************************************************************************)
\* longest chain of member accesses a.b.c... in a generated expression
MaxChain == 2
\* most source units linted in parallel
MaxUnits == 2

(***************************************************************************)
(* Constants of the rule (the backquotes of the texts written as quotes).  *)
(***************************************************************************)
CODE == "no-window-prefix"
MESSAGE == "For compatibility between the Window context and the Web Workers, calling Web APIs via 'window' is disallowed"
HINT == "Instead, call this API via 'self', 'globalThis', or no extra prefix"

\* The array literal the deny-list is collected from, in source order.
DenyListNames ==
  <<"AbortController", "AbortSignal", "Blob", "BroadcastChannel",
    "ByteLengthQueuingStrategy", "Cache", "CacheStorage", "CanvasGradient",
    "CanvasPattern", "CloseEvent", "CountQueuingStrategy", "Crypto",
    "CryptoKey", "CustomEvent", "DOMException", "DOMMatrix",
    "DOMMatrixReadOnly", "DOMPoint", "DOMPointReadOnly", "DOMQuad",
    "DOMRect", "DOMRectReadOnly", "DOMStringList", "ErrorEvent", "Event",
    "EventSource", "EventTarget", "File", "FileList", "FileReader",
    "FontFace", "FontFaceSet", "FontFaceSetLoadEvent", "FormData", "Headers",
    "IDBCursor", "IDBCursorWithValue", "IDBDatabase", "IDBFactory",
    "IDBIndex", "IDBKeyRange", "IDBObjectStore", "IDBOpenDBRequest",
    "IDBRequest", "IDBTransaction", "IDBVersionChangeEvent", "ImageBitmap",
    "ImageBitmapRenderingContext", "ImageData", "MediaCapabilities",
    "MessageChannel", "MessageEvent", "MessagePort", "NetworkInformation",
    "Notification", "Path2D", "Performance", "PerformanceEntry",
    "PerformanceMark", "PerformanceMeasure", "PerformanceObserver",
    "PerformanceObserverEntryList", "PerformanceResourceTiming",
    "PerformanceServerTiming", "PermissionStatus", "Permissions",
    "ProgressEvent", "PromiseRejectionEvent", "PushManager",
    "PushSubscription", "PushSubscriptionOptions", "ReadableStream",
    "ReadableStreamDefaultController", "ReadableStreamDefaultReader",
    "Request", "Response", "SecurityPolicyViolationEvent", "ServiceWorker",
    "ServiceWorkerContainer", "ServiceWorkerRegistration", "StorageManager",
    "SubtleCrypto", "TextDecoder", "TextDecoderStream", "TextEncoder",
    "TextEncoderStream", "TextMetrics", "TransformStream",
    "TransformStreamDefaultController", "URL", "URLSearchParams",
    "WebGL2RenderingContext", "WebGLActiveInfo", "WebGLBuffer",
    "WebGLContextEvent", "WebGLFramebuffer", "WebGLProgram", "WebGLQuery",
    "WebGLRenderbuffer", "WebGLRenderingContext", "WebGLSampler",
    "WebGLShader", "WebGLShaderPrecisionFormat", "WebGLSync", "WebGLTexture",
    "WebGLTransformFeedback", "WebGLUniformLocation",
    "WebGLVertexArrayObject", "WebSocket", "Worker", "WritableStream",
    "WritableStreamDefaultController", "WritableStreamDefaultWriter",
    "XMLHttpRequest", "XMLHttpRequestEventTarget", "XMLHttpRequestUpload",
    "console", "WebAssembly", "name", "navigator", "self", "close",
    "postMessage", "dispatchEvent", "cancelAnimationFrame",
    "requestAnimationFrame", "onerror", "onlanguagechange", "onmessage",
    "onmessageerror", "onoffline", "ononline", "onrejectionhandled",
    "onunhandledrejection", "caches", "crossOriginIsolated", "crypto",
    "indexedDB", "isSecureContext", "origin", "performance", "atob", "btoa",
    "clearInterval", "clearTimeout", "createImageBitmap", "fetch",
    "queueMicrotask", "setInterval", "setTimeout", "addEventListener",
    "removeEventListener", "Deno" >>

\* What the closure of the Lazy builds: .iter().copied().collect()
PROPERTY_DENY_LIST == {DenyListNames[i] : i \in DOMAIN DenyListNames}

(***************************************************************************)
(* The syntax tree (deno_ast view): expressions.                           *)
(***************************************************************************)
Ident(s) == [type |-> "Ident", sym |-> s]
\* a string literal: its source text between the quotes, and its value
Str(raw, value) == [type |-> "Str", raw |-> raw, value |-> value]
Num(raw) == [type |-> "Num", raw |-> raw]
\* a template element: its raw source text and its cooked value
Quasi(raw, cooked) == [raw |-> raw, cooked |-> cooked]
Tpl(exprs, quasis) == [type |-> "Tpl", exprs |-> exprs, quasis |-> quasis]
Call(callee) == [type |-> "Call", callee |-> callee]
Paren(e) == [type |-> "Paren", expr |-> e]
MemberExpr(obj, prop) == [type |-> "MemberExpr", obj |-> obj, prop |-> prop]
\* MemberProp: the three variants
PropIdent(s) == [type |-> "Ident", sym |-> s]
PropPrivateName(s) == [type |-> "PrivateName", sym |-> s]
PropComputed(e) == [type |-> "Computed", expr |-> e]

None == [some |-> FALSE]
Some(s) == [some |-> TRUE, sym |-> s]

(***************************************************************************)
(* extract_symbol: the statically determined property name, or None.       *)
(***************************************************************************)
\* variant: an identifier key is read as if it were the property name
extract_symbol_ident_key(expr) ==
  LET prop == expr.prop IN
  CASE prop.type = "Ident" -> Some(prop.sym)
    [] prop.type = "PrivateName" -> Some(prop.sym)
    [] prop.type = "Computed" ->
         CASE prop.expr.type = "Str" -> Some(prop.expr.value)
           [] prop.expr.type = "Ident" -> Some(prop.expr.sym)
           [] prop.expr.type = "Tpl" /\ Len(prop.expr.exprs) = 0
                /\ Len(prop.expr.quasis) = 1 -> Some(prop.expr.quasis[1].raw)
           [] OTHER -> None

\* variant: only the dotted form is resolved
extract_symbol_dotted_only(expr) ==
  LET prop == expr.prop IN
  CASE prop.type = "Ident" -> Some(prop.sym)
    [] prop.type = "PrivateName" -> Some(prop.sym)
    [] OTHER -> None

extract_symbol(expr) ==
  LET prop == expr.prop IN
  CASE prop.type = "Ident" -> Some(prop.sym)
    [] prop.type = "PrivateName" -> Some(prop.sym)
    [] prop.type = "Computed" ->
         CASE prop.expr.type = "Str" -> Some(prop.expr.value)
           [] prop.expr.type = "Ident" -> None
           [] prop.expr.type = "Tpl" /\ Len(prop.expr.exprs) = 0
                /\ Len(prop.expr.quasis) = 1 -> Some(prop.expr.quasis[1].raw)
           [] OTHER -> None

(***************************************************************************)
(* Statements.  nl says whether the statement starts a new line (for the   *)
(* first statement: whether the text begins with a newline); otherwise it  *)
(* follows the previous statement on the same line after one space.        *)
(***************************************************************************)
ExprStmt(e, nl) == [type |-> "ExprStmt", expr |-> e, nl |-> nl]
\* const <name> = <init>;
VarDecl(name, init, nl) ==
  [type |-> "VarDecl", name |-> name, init |-> init, nl |-> nl]
\* return <arg>;
ReturnStmt(arg, nl) == [type |-> "ReturnStmt", arg |-> arg, nl |-> nl]
\* function <name>() {  (one body statement per line, indented)  }
FnDecl(name, body, nl) ==
  [type |-> "FnDecl", name |-> name, body |-> body, nl |-> nl]

(***************************************************************************)
(* Source positions: the length of the text of an expression.              *)
(***************************************************************************)
RECURSIVE SrcLen(_)
RECURSIVE TplLen(_, _)

TplLen(tpl, i) ==
  IF i > Len(tpl.quasis) THEN 0
  ELSE Len(tpl.quasis[i].raw)
       + (IF i <= Len(tpl.exprs) THEN 3 + SrcLen(tpl.exprs[i]) ELSE 0)
       + TplLen(tpl, i + 1)

SrcLen(e) ==
  CASE e.type = "Ident" -> Len(e.sym)
    [] e.type = "Str" -> Len(e.raw) + 2
    [] e.type = "Num" -> Len(e.raw)
    [] e.type = "Tpl" -> 2 + TplLen(e, 1)
    [] e.type = "Call" -> SrcLen(e.callee) + 2
    [] e.type = "Paren" -> SrcLen(e.expr) + 2
    [] e.type = "MemberExpr" ->
         SrcLen(e.obj)
         + (CASE e.prop.type = "Ident" -> 1 + Len(e.prop.sym)
              [] e.prop.type = "PrivateName" -> 2 + Len(e.prop.sym)
              [] e.prop.type = "Computed" -> 2 + SrcLen(e.prop.expr))

StmtLen(s) ==
  CASE s.type = "ExprStmt" -> SrcLen(s.expr) + 1
    [] s.type = "VarDecl" -> 6 + Len(s.name) + 3 + SrcLen(s.init) + 1
    [] s.type = "ReturnStmt" -> 7 + SrcLen(s.arg) + 1
    [] s.type = "FnDecl" -> 9 + Len(s.name) + 4

(***************************************************************************)
(* Scope analysis.  A scope is [ctxt, names]; an identifier resolves to    *)
(* the innermost enclosing scope that declares its name and carries that   *)
(* scope's syntax context, or Unresolved when no scope declares it.  The   *)
(* scope table holds the ids (name, context) of all declarations.          *)
(***************************************************************************)
Unresolved == 0
ModuleCtxt == 1

Decls(stmts) ==
  {stmts[i].name : i \in {j \in DOMAIN stmts :
                            stmts[j].type \in {"VarDecl", "FnDecl"}}}

Resolve(sym, env) ==
  LET hits == {i \in DOMAIN env : sym \in env[i].names} IN
  IF hits = {} THEN Unresolved
  ELSE env[CHOOSE i \in hits : \A j \in hits : i <= j].ctxt

FnCtxt(i) == ModuleCtxt + i

Analyze(program) ==
  {<<n, ModuleCtxt>> : n \in Decls(program)}
  \cup UNION {{<<n, FnCtxt(i)>> : n \in Decls(program[i].body)} :
                i \in {j \in DOMAIN program : program[j].type = "FnDecl"}}

to_id(ident) == <<ident.sym, ident.ctxt>>

\* Scope::is_global: the id has no declaration in the scope table
is_global(scope, id) == id \notin scope

(***************************************************************************)
(* Traversal: the member expressions of a program in document order, each  *)
(* a view with its object (identifiers resolved), property, the type of    *)
(* its parent node and its range (line from 1, column from 0, length).     *)
(***************************************************************************)
View(e, parent, line, col, env) ==
  [obj |-> IF e.obj.type = "Ident"
           THEN [type |-> "Ident", sym |-> e.obj.sym,
                 ctxt |-> Resolve(e.obj.sym, env)]
           ELSE e.obj,
   prop |-> e.prop,
   parent |-> parent,
   range |-> [line |-> line, col |-> col, len |-> SrcLen(e)]]

RECURSIVE MemberExprs(_, _, _, _, _)
RECURSIVE TplMemberExprs(_, _, _, _, _)

TplMemberExprs(tpl, i, line, col, env) ==
  IF i > Len(tpl.exprs) THEN <<>>
  ELSE LET at == col + Len(tpl.quasis[i].raw) + 2 IN
       MemberExprs(tpl.exprs[i], "Tpl", line, at, env)
       \o TplMemberExprs(tpl, i + 1, line,
                         at + SrcLen(tpl.exprs[i]) + 1, env)

MemberExprs(e, parent, line, col, env) ==
  CASE e.type = "MemberExpr" ->
         <<View(e, parent, line, col, env)>>
         \o MemberExprs(e.obj, "MemberExpr", line, col, env)
         \o (IF e.prop.type = "Computed"
             THEN MemberExprs(e.prop.expr, "ComputedPropName", line,
                              col + SrcLen(e.obj) + 1, env)
             ELSE <<>>)
    [] e.type = "Call" -> MemberExprs(e.callee, "CallExpr", line, col, env)
    [] e.type = "Paren" ->
         MemberExprs(e.expr, "ParenExpr", line, col + 1, env)
    [] e.type = "Tpl" -> TplMemberExprs(e, 1, line, col + 1, env)
    [] OTHER -> <<>>

RECURSIVE Walk(_, _, _, _, _, _)
Walk(stmts, i, line, col, indent, env) ==
  IF i > Len(stmts) THEN <<>>
  ELSE
    LET s == stmts[i]
        l == IF s.nl THEN line + 1 ELSE line
        c == IF s.nl THEN indent ELSE IF i = 1 THEN col ELSE col + 1
        here ==
          CASE s.type = "ExprStmt" ->
                 MemberExprs(s.expr, "ExprStmt", l, c, env)
            [] s.type = "VarDecl" ->
                 MemberExprs(s.init, "VarDeclarator", l,
                             c + 6 + Len(s.name) + 3, env)
            [] s.type = "ReturnStmt" ->
                 MemberExprs(s.arg, "ReturnStmt", l, c + 7, env)
            [] s.type = "FnDecl" ->
                 Walk(s.body, 1, l, 0, indent + 2,
                      <<[ctxt |-> FnCtxt(i), names |-> Decls(s.body)]>>
                      \o env)
        endl == IF s.type = "FnDecl" THEN l + Len(s.body) + 1 ELSE l
        endc == IF s.type = "FnDecl" THEN indent + 1 ELSE c + StmtLen(s)
    IN here \o Walk(stmts, i + 1, endl, endc, indent, env)

Nodes(program) ==
  Walk(program, 1, 1, 0, 0,
       <<[ctxt |-> ModuleCtxt, names |-> Decls(program)]>>)

(***************************************************************************)
(* NoWindowPrefixHandler::member_expr, the checks in the order of the code *)
(***************************************************************************)
\* variant: no node counts as chained
is_chained_never(member_expr) == FALSE

\* variant: looks at the node's object instead of the node's parent
is_chained_by_object(member_expr) == member_expr.obj.type = "MemberExpr"

\* member_expr.parent().is::<MemberExpr>()
is_chained(member_expr) == member_expr.parent = "MemberExpr"

\* variant: the scope check is left out
window_symbol_no_scope(member_expr, scope) ==
  IF /\ member_expr.obj.type = "Ident"
     /\ member_expr.obj.sym = "window"
  THEN extract_symbol(member_expr)
  ELSE None

\* variant: the scope is asked about the name, whatever the occurrence
window_symbol_by_name(member_expr, scope) ==
  IF /\ member_expr.obj.type = "Ident"
     /\ member_expr.obj.sym = "window"
     /\ \A id \in scope : id[1] # member_expr.obj.sym
  THEN extract_symbol(member_expr)
  ELSE None

\* variant: any identifier object is accepted
window_symbol_any_ident(member_expr, scope) ==
  IF /\ member_expr.obj.type = "Ident"
     /\ is_global(scope, to_id(member_expr.obj))
  THEN extract_symbol(member_expr)
  ELSE None

\* the if_chain up to `if let Some(prop_symbol) = extract_symbol(..)`
window_symbol(member_expr, scope) ==
  IF /\ member_expr.obj.type = "Ident"
     /\ member_expr.obj.sym = "window"
     /\ is_global(scope, to_id(member_expr.obj))
  THEN extract_symbol(member_expr)
  ELSE None

\* variant: the lookup ignores the case of the first letter
deny_contains_nocase(set, sym) ==
  \/ sym \in set
  \/ sym = "Navigator" /\ "navigator" \in set

\* PROPERTY_DENY_LIST.contains(prop_symbol)
deny_contains(set, sym) == sym \in set

\* variant: the context reports a rule once only
add_diagnostic_once(diags, range) ==
  IF diags # <<>> THEN diags
  ELSE Append(diags, [range |-> range, code |-> CODE,
                      message |-> MESSAGE, hint |-> HINT])

\* ctx.add_diagnostic_with_hint(member_expr.range(), CODE, MESSAGE, HINT)
add_diagnostic_with_hint(diags, range) ==
  Append(diags, [range |-> range, code |-> CODE,
                 message |-> MESSAGE, hint |-> HINT])

(***************************************************************************)
(* PROPERTY_DENY_LIST is a static once_cell::sync::Lazy.  Its cell is      *)
(* INCOMPLETE until a first deref claims it, RUNNING while the claimer     *)
(* runs the closure, COMPLETE after; a deref that finds it RUNNING blocks  *)
(* until it is COMPLETE.  The set is handed out by shared reference only.  *)
(***************************************************************************)
\* variant: no claim is taken; whoever finds the cell not COMPLETE builds
lazy_claim_unsynchronised(state) ==
  [won |-> state # "COMPLETE", state |-> state]

\* the compare-exchange INCOMPLETE -> RUNNING of the first deref
lazy_claim(state) ==
  [won |-> state = "INCOMPLETE",
   state |-> IF state = "INCOMPLETE" THEN "RUNNING" ELSE state]

(***************************************************************************)
(* The programs the traversals are given.                                  *)
(***************************************************************************)
\* names the tests use that are not in the deny-list
OtherNames ==
  {"onload", "onunload", "closed", "alert", "confirm", "prompt",
   "localStorage", "sessionStorage", "window", "Navigator", "location",
   "history", "bind", "metrics"}

Names == {DenyListNames[i] : i \in DOMAIN DenyListNames} \cup OtherNames

SampleNames == {"fetch", "Deno", "alert", "Navigator"}

Objects == {"window", "self", "globalThis", "foo"}

\* .p   ["p"]   [`p`]
StaticProps(p) ==
  {PropIdent(p), PropComputed(Str(p, p)),
   PropComputed(Tpl(<<>>, <<Quasi(p, p)>>))}

\* ["fetch"] has the value fetch; [`fetch`] has the raw text as written
EscapedProps ==
  {PropComputed(Str("\\u0066etch", "fetch")),
   PropComputed(Tpl(<<>>, <<Quasi("\\u0066etch", "fetch")>>))}

\* [f]  [fetch]  [`${f}`]  [`fetch${f}`]  [0]  [f()]  [("fetch")]  [window.fetch]
OtherProps ==
  {PropComputed(Ident("f")),
   PropComputed(Ident("fetch")),
   PropComputed(Tpl(<<Ident("f")>>, <<Quasi("", ""), Quasi("", "")>>)),
   PropComputed(Tpl(<<Ident("f")>>, <<Quasi("fetch", "fetch"), Quasi("", "")>>)),
   PropComputed(Num("0")),
   PropComputed(Call(Ident("f"))),
   PropComputed(Paren(Str("fetch", "fetch"))),
   PropComputed(MemberExpr(Ident("window"), PropIdent("fetch")))}

\* the properties of the further links of a chain
LinkProps ==
  {PropIdent("bind"), PropIdent("fetch"), PropComputed(Str("fetch", "fetch"))}

\* o.p in every form of the property, for the objects and names given
Access(objects, names) ==
  {MemberExpr(Ident(o), pr) :
     o \in objects,
     pr \in UNION {StaticProps(p) : p \in names}
            \cup EscapedProps \cup OtherProps}

\* the chains of at most n links on these accesses
RECURSIVE Chains(_, _, _)
Chains(objects, names, n) ==
  IF n <= 1 THEN Access(objects, names)
  ELSE LET prev == Chains(objects, names, n - 1) IN
       prev \cup {MemberExpr(c, lp) : c \in prev, lp \in LinkProps}

\* e   e()   e().then
Wraps(e) == {e, Call(e), MemberExpr(Call(e), PropIdent("then"))}

\* every name on every object; every name read off `window` or `foo` and
\* read on
AllExprs == Access(Objects, Names) \cup Chains({"window", "foo"}, Names, 2)

\* chains up to the bound, for a few names
CoreExprs ==
  UNION {Wraps(e) : e \in Chains({"window", "foo"}, SampleNames, MaxChain)}

\* what a function that shadows `window` returns
ShadowedUses ==
  {Ident("window"),
   MemberExpr(Ident("window"), PropIdent("fetch")),
   Call(MemberExpr(Ident("window"), PropComputed(Str("fetch", "fetch"))))}

FirstStmts ==
  {ExprStmt(Call(MemberExpr(Ident("window"), PropIdent("fetch"))), FALSE),
   ExprStmt(MemberExpr(Ident("window"), PropIdent("alert")), FALSE),
   ExprStmt(Call(MemberExpr(Ident("self"), PropIdent("fetch"))), FALSE),
   ExprStmt(Call(Ident("fetch")), FALSE)}

\* the units of a parallel run
ParallelPrograms ==
  {<<ExprStmt(Call(MemberExpr(Ident("window"), PropIdent("fetch"))), FALSE)>>,
   <<ExprStmt(MemberExpr(Ident("window"),
                         PropComputed(Str("Navigator", "Navigator"))), FALSE)>>,
   <<ExprStmt(Call(MemberExpr(Ident("self"), PropIdent("fetch"))), FALSE)>>,
   <<ExprStmt(MemberExpr(Ident("window"), PropIdent("Deno")), FALSE),
     ExprStmt(MemberExpr(Ident("window"),
                         PropComputed(Tpl(<<>>, <<Quasi("close", "close")>>))),
              TRUE)>>}

Programs ==
  \* one statement
  {<<ExprStmt(e, FALSE)>> : e \in AllExprs}
  \cup {<<ExprStmt(Call(e), FALSE)>> : e \in AllExprs}
  \cup {<<ExprStmt(e, TRUE)>> : e \in CoreExprs}
  \* bare calls and reads
  \cup {<<ExprStmt(Call(Ident(p)), FALSE)>> : p \in Names}
  \cup {<<ExprStmt(Ident(p), FALSE)>> : p \in Names}
  \* `window` shadowed at the top level
  \cup {<<VarDecl("window", Num("42"), FALSE), ExprStmt(e, FALSE)>> :
          e \in CoreExprs}
  \* a key held in a variable
  \cup {<<VarDecl("f", Str("fetch", "fetch"), FALSE), ExprStmt(e, FALSE)>> :
          e \in CoreExprs}
  \* `window` shadowed inside a function, then a top-level statement
  \cup {<<FnDecl("foo", <<VarDecl("window", Num("42"), TRUE),
                          ReturnStmt(r, TRUE)>>, TRUE),
          ExprStmt(e, TRUE)>> :
          r \in ShadowedUses, e \in CoreExprs}
  \* two statements on one line, or on two
  \cup {<<s, ExprStmt(e, nl)>> :
          s \in FirstStmts, e \in CoreExprs, nl \in BOOLEAN}
  \cup ParallelPrograms

(***************************************************************************)
(* The state machine.                                                      *)
(***************************************************************************)
Units == DOMAIN units

Init ==
  /\ \E n \in 1..MaxUnits :
       units \in [1..n -> IF n = 1 THEN Programs ELSE ParallelPrograms]
  /\ unit_nodes = [t \in DOMAIN units |-> Nodes(units[t])]
  /\ unit_scope = [t \in DOMAIN units |-> Analyze(units[t])]
  /\ pos = [t \in DOMAIN units |-> 1]
  /\ pc = [t \in DOMAIN units |-> "traverse"]
  /\ prop_symbol = [t \in DOMAIN units |-> ""]
  /\ deny = [t \in DOMAIN units |-> {}]
  /\ diagnostics = [t \in DOMAIN units |-> <<>>]
  /\ lazy = [state |-> "INCOMPLETE", value |-> {}]
  /\ init_count = 0

Done(t) == pc[t] = "traverse" /\ pos[t] > Len(unit_nodes[t])

\* The handler is called on the next member expression and runs up to the
\* deny-list lookup; it returns at the first check that fails.
member_expr(t) ==
  /\ pc[t] = "traverse"
  /\ pos[t] <= Len(unit_nodes[t])
  /\ LET node == unit_nodes[t][pos[t]]
         found == window_symbol(node, unit_scope[t])
     IN IF is_chained(node) \/ ~found.some
        THEN /\ pos' = [pos EXCEPT ![t] = @ + 1]
             /\ UNCHANGED <<pc, prop_symbol>>
        ELSE /\ pc' = [pc EXCEPT ![t] = "force"]
             /\ prop_symbol' = [prop_symbol EXCEPT ![t] = found.sym]
             /\ UNCHANGED pos
  /\ UNCHANGED <<units, unit_nodes, unit_scope, deny, diagnostics, lazy, init_count>>

\* Deref of PROPERTY_DENY_LIST: read a COMPLETE cell, or try to claim it.
lazy_force(t) ==
  /\ pc[t] = "force"
  /\ IF lazy.state = "COMPLETE"
     THEN /\ deny' = [deny EXCEPT ![t] = lazy.value]
          /\ pc' = [pc EXCEPT ![t] = "contains"]
          /\ UNCHANGED lazy
     ELSE LET c == lazy_claim(lazy.state) IN
          /\ lazy' = [lazy EXCEPT !.state = c.state]
          /\ pc' = [pc EXCEPT ![t] = IF c.won THEN "init" ELSE "wait"]
          /\ UNCHANGED deny
  /\ UNCHANGED <<units, unit_nodes, unit_scope, pos, prop_symbol, diagnostics, init_count>>

\* The claimer runs the closure and publishes the set.
lazy_init(t) ==
  /\ pc[t] = "init"
  /\ lazy' = [state |-> "COMPLETE", value |-> PROPERTY_DENY_LIST]
  /\ init_count' = init_count + 1
  /\ deny' = [deny EXCEPT ![t] = PROPERTY_DENY_LIST]
  /\ pc' = [pc EXCEPT ![t] = "contains"]
  /\ UNCHANGED <<units, unit_nodes, unit_scope, pos, prop_symbol, diagnostics>>

\* A deref that lost the claim blocks until the cell is COMPLETE.
lazy_wait(t) ==
  /\ pc[t] = "wait"
  /\ lazy.state = "COMPLETE"
  /\ deny' = [deny EXCEPT ![t] = lazy.value]
  /\ pc' = [pc EXCEPT ![t] = "contains"]
  /\ UNCHANGED <<units, unit_nodes, unit_scope, pos, prop_symbol, diagnostics, lazy, init_count>>

\* The lookup, the report if it hits, and the return of the handler.
contains_and_report(t) ==
  /\ pc[t] = "contains"
  /\ diagnostics' =
       [diagnostics EXCEPT ![t] =
          IF deny_contains(deny[t], prop_symbol[t])
          THEN add_diagnostic_with_hint(@, unit_nodes[t][pos[t]].range)
          ELSE @]
  /\ pos' = [pos EXCEPT ![t] = @ + 1]
  /\ pc' = [pc EXCEPT ![t] = "traverse"]
  /\ prop_symbol' = [prop_symbol EXCEPT ![t] = ""]
  /\ deny' = [deny EXCEPT ![t] = {}]
  /\ UNCHANGED <<units, unit_nodes, unit_scope, lazy, init_count>>

Next ==
  \/ \E t \in Units : member_expr(t)
  \/ \E t \in Units : lazy_force(t)
  \/ \E t \in Units : lazy_init(t)
  \/ \E t \in Units : lazy_wait(t)
  \/ \E t \in Units : contains_and_report(t)

Spec == Init /\ [][Next]_vars

(***************************************************************************)
(* Vocabulary of the properties, read off the syntax of the visited nodes. *)
(***************************************************************************)
NodesOf(t) == unit_nodes[t]

\* the nodes on which the handler has returned
Visited(t) == 1..(pos[t] - 1)

ReportsAt(t, range) ==
  {k \in DOMAIN diagnostics[t] : diagnostics[t][k].range = range}

Reported(t, i) == ReportsAt(t, NodesOf(t)[i].range) # {}

DeniedNames == {DenyListNames[i] : i \in DOMAIN DenyListNames}

WindowObject(n) == n.obj.type = "Ident" /\ n.obj.sym = "window"

GlobalWindow(n) == WindowObject(n) /\ n.obj.ctxt = Unresolved

Outermost(n) == n.parent # "MemberExpr"

\* the node is window.p, window["p"] or window[`p`] for a denied p
\* a string-literal key, or a template key of one segment, no interpolation
LiteralKey(prop) ==
  /\ prop.type = "Computed"
  /\ \/ prop.expr.type = "Str"
     \/ /\ prop.expr.type = "Tpl"
        /\ Len(prop.expr.exprs) = 0
        /\ Len(prop.expr.quasis) = 1

\* the text the three forms name, "" when the key is no literal
StaticName(prop) ==
  CASE prop.type = "Ident" -> prop.sym
    [] LiteralKey(prop) /\ prop.expr.type = "Str" -> prop.expr.value
    [] LiteralKey(prop) /\ prop.expr.type = "Tpl" -> prop.expr.quasis[1].raw
    [] OTHER -> ""

\* the property is .p, ["p"] or [`p`] for a denied p
DeniedProp(prop) ==
  LET p == StaticName(prop) IN p \in DeniedNames /\ prop \in StaticProps(p)

DeniedForm(n) == DeniedProp(n.prop)

Callee(e) == IF e.type = "Call" THEN e.callee ELSE e

\* the expression is <objname>.<prop>, whatever the form of the property
AccessOn(e, objname) ==
  e.type = "MemberExpr" /\ e.obj.type = "Ident" /\ e.obj.sym = objname

\* the program is the one statement `e;` or `e();` at the start of the text
SoleStatement(program) ==
  Len(program) = 1 /\ program[1].type = "ExprStmt" /\ ~program[1].nl

Diagnostic(line, col, len) ==
  [range |-> [line |-> line, col |-> col, len |-> len],
   code |-> CODE, message |-> MESSAGE, hint |-> HINT]

WindowAccess(pr) == MemberExpr(Ident("window"), pr)

\* the nodes i..j are successive links of one chain, i the outer one
SameChain(t, i, j) ==
  /\ i < j
  /\ \A k \in (i + 1)..j : NodesOf(t)[k].parent = "MemberExpr"

\* function foo() { const window = 42; return r; }, after a first newline
ShadowingFunction(r) ==
  FnDecl("foo", <<VarDecl("window", Num("42"), TRUE), ReturnStmt(r, TRUE)>>,
         TRUE)

(***************************************************************************)
(* C1.  For every denied name p, each of window.p, window["p"] and         *)
(* window[`p`], with `window` global and the access not the object of an   *)
(* enclosing member access, gets exactly one diagnostic, anchored at the   *)
(* start of the access: a program that is just the access (called or not)  *)
(* ends with one diagnostic at line 1, column 0, spanning the access.      *)
(***************************************************************************)
C1_DeniedAccessReportedOnce ==
  \A t \in Units :
    /\ \A i \in Visited(t) :
         LET n == NodesOf(t)[i] IN
         (GlobalWindow(n) /\ Outermost(n) /\ DeniedForm(n))
           => Cardinality(ReportsAt(t, n.range)) = 1
    /\ (/\ SoleStatement(units[t])
        /\ AccessOn(Callee(units[t][1].expr), "window")
        /\ DeniedProp(Callee(units[t][1].expr).prop)
        /\ Done(t))
         => diagnostics[t] =
              <<Diagnostic(1, 0, SrcLen(Callee(units[t][1].expr)))>>

C1_Witness ==
  \E t \in Units :
    /\ Done(t)
    /\ units[t] = <<ExprStmt(Call(WindowAccess(
                      PropComputed(Tpl(<<>>, <<Quasi("fetch", "fetch")>>)))),
                    FALSE)>>
    /\ diagnostics[t] = <<Diagnostic(1, 0, 15)>>

(***************************************************************************)
(* C2.  Shadowing: an access whose object `window` resolves to a local     *)
(* declaration is never reported, whatever the property and its form.      *)
(***************************************************************************)
C2_ShadowedWindowNotReported ==
  \A t \in Units : \A i \in Visited(t) :
    LET n == NodesOf(t)[i] IN
    (WindowObject(n) /\ n.obj.ctxt # Unresolved) => ~Reported(t, i)

C2_Witness ==
  \E t \in Units :
    /\ Done(t)
    /\ units[t] = <<VarDecl("window", Num("42"), FALSE),
                    ExprStmt(Call(WindowAccess(PropIdent("fetch"))), FALSE)>>
    /\ NodesOf(t)[1].obj.ctxt = ModuleCtxt
    /\ diagnostics[t] = <<>>

(***************************************************************************)
(* C3.  Scope resolution is per occurrence: a function that declares a     *)
(* local `window` and uses it, followed by a top-level window.p, ends with *)
(* exactly one diagnostic at the line and column of the top-level access   *)
(* (line 6, column 0), and a declaration of `window` somewhere in the      *)
(* program never suppresses the report of an access that resolves to the   *)
(* global scope.                                                           *)
(***************************************************************************)
C3_ResolutionPerOccurrence ==
  \A t \in Units :
    /\ \A i \in Visited(t) :
         LET n == NodesOf(t)[i] IN
         (/\ GlobalWindow(n) /\ Outermost(n) /\ DeniedForm(n)
          /\ \E id \in unit_scope[t] : id[1] = "window")
           => Cardinality(ReportsAt(t, n.range)) = 1
    /\ (/\ Len(units[t]) = 2
        /\ units[t][1] \in {ShadowingFunction(r) : r \in ShadowedUses}
        /\ units[t][2].type = "ExprStmt" /\ units[t][2].nl
        /\ AccessOn(Callee(units[t][2].expr), "window")
        /\ DeniedProp(Callee(units[t][2].expr).prop)
        /\ Done(t))
         => diagnostics[t] =
              <<Diagnostic(6, 0, SrcLen(Callee(units[t][2].expr)))>>

C3_Witness ==
  \E t \in Units :
    /\ Done(t)
    /\ units[t] = <<ShadowingFunction(Ident("window")),
                    ExprStmt(Call(WindowAccess(PropIdent("fetch"))), TRUE)>>
    /\ diagnostics[t] = <<Diagnostic(6, 0, 12)>>

(***************************************************************************)
(* C4.  Chained access: a member expression that is the object of an       *)
(* enclosing member expression is never reported, so a chain gets at most  *)
(* one diagnostic, and foo.window.fetch() gets none.                       *)
(***************************************************************************)
C4_InnerLinksNotReported ==
  \A t \in Units :
    /\ \A i \in Visited(t) :
         NodesOf(t)[i].parent = "MemberExpr" => ~Reported(t, i)
    /\ \A i \in Visited(t) : \A j \in Visited(t) :
         SameChain(t, i, j) => ~(Reported(t, i) /\ Reported(t, j))
    /\ (Done(t) /\ units[t] =
          <<ExprStmt(Call(MemberExpr(MemberExpr(Ident("foo"),
                                                PropIdent("window")),
                                     PropIdent("fetch"))), FALSE)>>)
         => diagnostics[t] = <<>>

C4_Witness ==
  \E t \in Units :
    /\ Done(t)
    /\ units[t] =
         <<ExprStmt(Call(MemberExpr(MemberExpr(Ident("foo"),
                                               PropIdent("window")),
                                    PropIdent("fetch"))), FALSE)>>
    /\ Len(NodesOf(t)) = 2
    /\ NodesOf(t)[2].parent = "MemberExpr"
    /\ diagnostics[t] = <<>>

(***************************************************************************)
(* C5.  An access whose object is not the bare identifier `window` is      *)
(* never reported; self.p, globalThis.p and the bare call p() of a denied  *)
(* name p get no diagnostic.                                               *)
(***************************************************************************)
C5_OnlyWindowPrefixReported ==
  \A t \in Units :
    /\ \A i \in Visited(t) :
         ~WindowObject(NodesOf(t)[i]) => ~Reported(t, i)
    /\ (/\ SoleStatement(units[t])
        /\ LET e == Callee(units[t][1].expr) IN
           \/ e.type = "Ident" /\ e.sym \in DeniedNames
           \/ /\ AccessOn(e, "self") \/ AccessOn(e, "globalThis")
              /\ DeniedProp(e.prop)
        /\ Done(t))
         => diagnostics[t] = <<>>

C5_Witness ==
  \E t \in Units :
    /\ Done(t)
    /\ units[t] = <<ExprStmt(Call(MemberExpr(Ident("globalThis"),
                                             PropIdent("fetch"))), FALSE)>>
    /\ Visited(t) = {1}
    /\ diagnostics[t] = <<>>

(***************************************************************************)
(* C6.  Undetermined property name: when the key of a global `window`      *)
(* access is computed from anything but a string literal or a template of  *)
(* one segment without interpolation, extract_symbol gives None and the    *)
(* access is not reported, even when the key variable holds a denied name. *)
(***************************************************************************)
C6_UndeterminedKeyNotReported ==
  \A t \in Units : \A i \in Visited(t) :
    LET n == NodesOf(t)[i] IN
    (GlobalWindow(n) /\ n.prop.type = "Computed" /\ ~LiteralKey(n.prop))
      => extract_symbol(n) = None /\ ~Reported(t, i)

C6_Witness ==
  \E t \in Units :
    /\ Done(t)
    /\ units[t] = <<VarDecl("f", Str("fetch", "fetch"), FALSE),
                    ExprStmt(Call(WindowAccess(PropComputed(Ident("f")))),
                             FALSE)>>
    /\ Visited(t) = {1}
    /\ diagnostics[t] = <<>>

(***************************************************************************)
(* C7.  A global `window` access in one of the three forms whose name is   *)
(* not, letter for letter, in the deny-list is not reported.               *)
(***************************************************************************)
C7_NamesOutsideListNotReported ==
  \A t \in Units : \A i \in Visited(t) :
    LET n == NodesOf(t)[i] IN
    (/\ GlobalWindow(n)
     /\ n.prop.type = "Ident" \/ LiteralKey(n.prop)
     /\ StaticName(n.prop) \notin DeniedNames)
      => ~Reported(t, i)

C7_Witness ==
  \E t \in Units :
    /\ Done(t)
    /\ units[t] = <<ExprStmt(WindowAccess(
                      PropComputed(Str("Navigator", "Navigator"))), FALSE)>>
    /\ Visited(t) = {1}
    /\ "navigator" \in DeniedNames
    /\ diagnostics[t] = <<>>

(***************************************************************************)
(* Vocabulary of the properties of the handler's steps and of the cell.    *)
(***************************************************************************)
Shape(n) == <<n.obj, n.prop, n.parent>>

\* the node passes every check: a global window, not an inner link of a
\* chain, a key that names a denied property (a string key by its value)
Matches(n) ==
  /\ GlobalWindow(n)
  /\ Outermost(n)
  /\ n.prop.type = "Ident" \/ LiteralKey(n.prop)
  /\ StaticName(n.prop) \in DeniedNames

SameShapeSameVerdict ==
  \A t \in Units : \A u \in Units :
    \A i \in Visited(t) : \A j \in Visited(u) :
      Shape(NodesOf(t)[i]) = Shape(NodesOf(u)[j])
        => (Reported(t, i) <=> Reported(u, j))

HandlerStep ==
  \A t \in Units :
    \/ diagnostics'[t] = diagnostics[t]
    \/ /\ pos[t] <= Len(NodesOf(t))
       /\ Matches(NodesOf(t)[pos[t]])
       /\ diagnostics'[t] =
            Append(diagnostics[t],
                   [range |-> NodesOf(t)[pos[t]].range, code |-> CODE,
                    message |-> MESSAGE, hint |-> HINT])
       /\ pos'[t] = pos[t] + 1
       /\ \A u \in Units \ {t} : diagnostics'[u] = diagnostics[u]
       /\ units' = units /\ unit_nodes' = unit_nodes
       /\ unit_scope' = unit_scope
       /\ lazy' = lazy /\ init_count' = init_count

\* the handler returns from a node that fails a check without a report
FailedCheckStep ==
  \A t \in Units :
    (/\ pos[t] <= Len(NodesOf(t))
     /\ ~Matches(NodesOf(t)[pos[t]])
     /\ pos'[t] = pos[t] + 1)
      => /\ diagnostics' = diagnostics
         /\ pc'[t] = "traverse"

\* the diagnostics of a program linted alone, its nodes taken in order
RECURSIVE Alone(_, _, _)
Alone(nodes, scope, i) ==
  IF i > Len(nodes) THEN <<>>
  ELSE LET n == nodes[i]
           found == window_symbol(n, scope)
       IN (IF ~is_chained(n) /\ found.some /\ found.sym \in DeniedNames
           THEN <<[range |-> n.range, code |-> CODE,
                   message |-> MESSAGE, hint |-> HINT]>>
           ELSE <<>>)
          \o Alone(nodes, scope, i + 1)

(***************************************************************************)
(* C8.  Statelessness: a step of the handler either leaves every           *)
(* diagnostics collection as it was, or appends exactly one diagnostic,    *)
(* for the node being visited, to the collection of the visiting traversal *)
(* and changes neither the programs nor the deny-list cell; it appends     *)
(* only for a node that passes every check; and two visited nodes with the *)
(* same object, property and parent have the same verdict, whatever was    *)
(* visited before them.                                                    *)
(***************************************************************************)
C8_HandlerIsStateless ==
  [][HandlerStep /\ FailedCheckStep /\ SameShapeSameVerdict']_vars

C8_Witness ==
  \E t \in Units :
    /\ Done(t)
    /\ Len(NodesOf(t)) = 2
    /\ Shape(NodesOf(t)[1]) = Shape(NodesOf(t)[2])
    /\ Len(diagnostics[t]) = 2
    /\ diagnostics[t][1].range.col < diagnostics[t][2].range.col

(***************************************************************************)
(* C9.  The deny-list is built exactly once, on first use, also when       *)
(* several traversals reach their first lookup together, and never         *)
(* changes: every lookup sees the whole list, and each traversal ends with *)
(* the diagnostics it ends with when it runs alone.                        *)
(***************************************************************************)
C9_DenyListBuiltOnce ==
  /\ init_count <= 1
  /\ init_count = 0 <=> lazy.state # "COMPLETE"
  /\ lazy.state = "COMPLETE" => lazy.value = DeniedNames
  /\ lazy.state # "COMPLETE" => \A t \in Units : diagnostics[t] = <<>>
  /\ \A t \in Units :
       /\ pc[t] = "contains" => deny[t] = DeniedNames
       /\ Done(t) =>
            diagnostics[t] = Alone(NodesOf(t), unit_scope[t], 1)

C9_Witness ==
  \E t \in Units : \E u \in Units :
    /\ t # u
    /\ pc[t] = "init"
    /\ pc[u] = "wait"
    /\ init_count = 0

(***************************************************************************)
(* C10.  A denied property read off the global `window` that is itself the *)
(* object of a further member access (window.p.q) gets no diagnostic, for  *)
(* the inner link nor for the outer one.                                   *)
(***************************************************************************)
C10_DeniedPropertyAsObject ==
  \A t \in Units :
    /\ \A i \in Visited(t) :
         LET n == NodesOf(t)[i] IN
         (GlobalWindow(n) /\ DeniedForm(n) /\ n.parent = "MemberExpr")
           => ~Reported(t, i) /\ ~Reported(t, i - 1)
    /\ (/\ SoleStatement(units[t])
        /\ Callee(units[t][1].expr).type = "MemberExpr"
        /\ AccessOn(Callee(units[t][1].expr).obj, "window")
        /\ DeniedProp(Callee(units[t][1].expr).obj.prop)
        /\ Done(t))
         => diagnostics[t] = <<>>

C10_Witness ==
  \E t \in Units :
    /\ Done(t)
    /\ units[t] = <<ExprStmt(MemberExpr(WindowAccess(PropIdent("fetch")),
                                        PropIdent("bind")), FALSE)>>
    /\ Visited(t) = {1, 2}
    /\ diagnostics[t] = <<>>
====
